---- MODULE Spec2Model ----
(***************************************************************************)
(* Model of make_invoice.py: the invoice data expansion (expand_data), the *)
(* period advance (copy_and_increment) and the helpers they use.           *)
(*                                                                         *)
(* Text is modelled as a sequence of one-character strings, so that        *)
(* parsing and formatting are computed and not assumed.  Numbers that can  *)
(* carry a fraction of an hour (hours, quantities, totals) are modelled in *)
(* units of 1/60: time_to_hours("9:30") = 9.5 is the integer 570.  Clock   *)
(* times in the inputs use minutes 00, 15, 30, 45 only, for which the      *)
(* float arithmetic of the program is exact.                               *)
(***************************************************************************)
EXTENDS Integers, Sequences, FiniteSets, TLC

VARIABLES pc, mode, exists, today, src, file, data, warned, error, runs, steps

vars == <<pc, mode, exists, today, src, file, data, warned, error, runs, steps>>

----------------------------------------------------------------------------
(* Text helpers: str(), int(), len() of Python on decimal text.            *)

NL == "\n"

Digits == {"0", "1", "2", "3", "4", "5", "6", "7", "8", "9"}

DigitVal(c) ==
  CASE c = "0" -> 0 [] c = "1" -> 1 [] c = "2" -> 2 [] c = "3" -> 3
    [] c = "4" -> 4 [] c = "5" -> 5 [] c = "6" -> 6 [] c = "7" -> 7
    [] c = "8" -> 8 [] c = "9" -> 9

DigitChar(n) ==
  CASE n = 0 -> "0" [] n = 1 -> "1" [] n = 2 -> "2" [] n = 3 -> "3"
    [] n = 4 -> "4" [] n = 5 -> "5" [] n = 6 -> "6" [] n = 7 -> "7"
    [] n = 8 -> "8" [] n = 9 -> "9"

AllDigits(s) == \A i \in 1..Len(s) : s[i] \in Digits

\* int(s) succeeds on non-empty decimal text (the only text the inputs hold
\* besides text with a character that is no digit, on which it raises).
IntParses(s) == Len(s) > 0 /\ AllDigits(s)

RECURSIVE ToInt(_)
ToInt(s) ==
  IF Len(s) = 0 THEN 0
  ELSE 10 * ToInt(SubSeq(s, 1, Len(s) - 1)) + DigitVal(s[Len(s)])

\* str(n) for n >= 0
RECURSIVE IntToStr(_)
IntToStr(n) ==
  IF n < 10 THEN <<DigitChar(n)>>
  ELSE Append(IntToStr(n \div 10), DigitChar(n % 10))

RECURSIVE Zeros(_)
Zeros(n) == IF n <= 0 THEN <<>> ELSE <<"0">> \o Zeros(n - 1)

\* the index of the first c in s, 0 when there is none
FirstIndex(s, c) ==
  IF \E i \in 1..Len(s) : s[i] = c
  THEN CHOOSE i \in 1..Len(s) : s[i] = c /\ \A j \in 1..(i - 1) : s[j] # c
  ELSE 0

----------------------------------------------------------------------------
(* PR_FORMATS and increment_payment_reference.                             *)
(* The format strings are handed to re.match as they are written: the text *)
(* {year} is never substituted, and the regular expression engine reads it *)
(* as the six literal characters { y e a r }.                              *)

YearLit == <<"{", "y", "e", "a", "r", "}">>

\* the number of digits [0-9]* takes, greedily, from index from on
DigitRun(s, from) ==
  CHOOSE n \in 0..(Len(s) - from + 1) :
    /\ \A i \in from..(from + n - 1) : s[i] \in Digits
    /\ (from + n > Len(s) \/ s[from + n] \notin Digits)

\* $ after m consumed characters: the end of the text, or just before a
\* newline that is the last character
EndOK(s, m) == m = Len(s) \/ (m = Len(s) - 1 /\ s[Len(s)] = NL)

NoMatch == [matched |-> FALSE, prefix |-> <<>>, year |-> <<>>, number |-> <<>>]

Groups(p, y, n) == [matched |-> TRUE, prefix |-> p, year |-> y, number |-> n]

\* "^(?P<prefix>..)(?P<year>{year})(?P<number>[0-9]*)$"
Format1(s) ==
  IF /\ Len(s) >= 8
     /\ s[1] # NL /\ s[2] # NL
     /\ SubSeq(s, 3, 8) = YearLit
     /\ EndOK(s, 8 + DigitRun(s, 9))
  THEN Groups(SubSeq(s, 1, 2), YearLit, SubSeq(s, 9, 8 + DigitRun(s, 9)))
  ELSE NoMatch

\* "^(?P<prefix>)(?P<year>{year})(?P<number>[0-9*])$"
Format2(s) ==
  IF /\ Len(s) >= 7
     /\ SubSeq(s, 1, 6) = YearLit
     /\ s[7] \in Digits \cup {"*"}
     /\ EndOK(s, 7)
  THEN Groups(<<>>, YearLit, <<s[7]>>)
  ELSE NoMatch

\* the ends k of the prefix group .*[^0-9] for which the rest matches
Format3Ends(s) ==
  {k \in 1..Len(s) :
     /\ \A i \in 1..(k - 1) : s[i] # NL
     /\ s[k] \notin Digits
     /\ EndOK(s, k + DigitRun(s, k + 1))}

\* "^(?P<year>)(?P<prefix>.*[^0-9])(?P<number>[0-9]*)$"; .* is greedy
Format3(s) ==
  IF Format3Ends(s) # {}
  THEN LET k == CHOOSE x \in Format3Ends(s) : \A y \in Format3Ends(s) : y <= x
       IN  Groups(SubSeq(s, 1, k), <<>>, SubSeq(s, k + 1, k + DigitRun(s, k + 1)))
  ELSE NoMatch

\* "^(?P<year>)(?P<prefix>)(?P<number>[0-9]*)$"
Format4(s) ==
  IF EndOK(s, DigitRun(s, 1))
  THEN Groups(<<>>, <<>>, SubSeq(s, 1, DigitRun(s, 1)))
  ELSE NoMatch

NumFormats == 4

PR_FORMATS(i, s) ==
  CASE i = 1 -> Format1(s)
    [] i = 2 -> Format2(s)
    [] i = 3 -> Format3(s)
    [] i = 4 -> Format4(s)

\* the loop over PR_FORMATS: the index of the first format that matches, 0
\* when none does
FirstMatch(pr) ==
  IF \E i \in 1..NumFormats : PR_FORMATS(i, pr).matched
  THEN CHOOSE i \in 1..NumFormats :
         /\ PR_FORMATS(i, pr).matched
         /\ \A j \in 1..(i - 1) : ~PR_FORMATS(j, pr).matched
  ELSE 0

\* PadNumber without the re-padding
PadNumber_NoPad(number) == IntToStr(ToInt(number) + 1)

\* number = str(int(number) + 1); number = "0" * (num_len - len(number)) + number
PadNumber(number) ==
  LET next == IntToStr(ToInt(number) + 1)
  IN  Zeros(Len(number) - Len(next)) \o next

Raised(kind) == [err |-> kind, value |-> <<>>]

Returned(v) == [err |-> "none", value |-> v]

increment_payment_reference(pr, prev_year, this_year) ==
  IF FirstMatch(pr) = 0 THEN Raised("Exception")
  ELSE LET m == PR_FORMATS(FirstMatch(pr), pr)
           year == IF m.year = IntToStr(prev_year) THEN IntToStr(this_year) ELSE m.year
       IN  IF ~IntParses(m.number) THEN Raised("ValueError")
           ELSE Returned(m.prefix \o year \o PadNumber(m.number))

----------------------------------------------------------------------------
(* Calendar: datetime.date, timedelta, parse_date(dayfirst=True) and       *)
(* strftime("%d.%m.%Y").  A date is a record [year, month, day].           *)

IsLeap(y) == (y % 4 = 0 /\ y % 100 # 0) \/ y % 400 = 0

DaysInMonth(y, m) ==
  IF m = 2 THEN (IF IsLeap(y) THEN 29 ELSE 28)
  ELSE IF m \in {4, 6, 9, 11} THEN 30 ELSE 31

Date(y, m, d) == [year |-> y, month |-> m, day |-> d]

\* date + timedelta(days=1)
NextDay(date) ==
  IF date.day < DaysInMonth(date.year, date.month)
  THEN Date(date.year, date.month, date.day + 1)
  ELSE IF date.month < 12 THEN Date(date.year, date.month + 1, 1)
       ELSE Date(date.year + 1, 1, 1)

\* date + timedelta(days=n), n >= 0
RECURSIVE AddDays(_, _)
AddDays(date, n) == IF n = 0 THEN date ELSE AddDays(NextDay(date), n - 1)

RECURSIVE DaysBeforeMonth(_, _)
DaysBeforeMonth(y, m) ==
  IF m = 1 THEN 0 ELSE DaysBeforeMonth(y, m - 1) + DaysInMonth(y, m - 1)

\* date.toordinal(); the difference of two dates is the difference of these
ToOrdinal(date) ==
  LET y == date.year - 1
  IN  y * 365 + (y \div 4) - (y \div 100) + (y \div 400)
        + DaysBeforeMonth(date.year, date.month) + date.day

\* WalkMonth leaving the loop one day late
RECURSIVE WalkMonth_Over(_, _)
WalkMonth_Over(date, cur_month) ==
  IF date.month = cur_month
  THEN WalkMonth_Over(NextDay(date), cur_month)
  ELSE date

\* the while loop of end_of_month, from the date it is entered with
RECURSIVE WalkMonth(_, _)
WalkMonth(date, cur_month) ==
  IF NextDay(date).month = cur_month
  THEN WalkMonth(NextDay(date), cur_month)
  ELSE date

\* end_of_month that stops at the replaced day
end_of_month_Day28(date) == Date(date.year, date.month, 28)

\* date.replace(day=28) returns a new date that the code drops: the walk
\* starts from the date passed in
end_of_month(date) == WalkMonth(date, date.month)

\* "%02d" % n and "%04d" % n
ZeroPad(n, width) == Zeros(width - Len(IntToStr(n))) \o IntToStr(n)

\* date.strftime("%d.%m.%Y")
pretty_date(date) ==
  ZeroPad(date.day, 2) \o <<".">> \o ZeroPad(date.month, 2) \o <<".">>
    \o ZeroPad(date.year, 4)

\* parse_date(s, dayfirst=True) on text of the form D.M.Y
parse_pretty_date(s) ==
  LET i    == FirstIndex(s, ".")
      rest == SubSeq(s, i + 1, Len(s))
      j    == FirstIndex(rest, ".")
  IN  Date(ToInt(SubSeq(rest, j + 1, Len(rest))),
           ToInt(SubSeq(rest, 1, j - 1)),
           ToInt(SubSeq(s, 1, i - 1)))

----------------------------------------------------------------------------
(* Clock times.                                                            *)

Scale == 60

\* h, minutes = [int(x) for x in s.split(':')]; return h + minutes/60
time_to_hours(s) ==
  LET i == FirstIndex(s, ":")
  IN  Scale * ToInt(SubSeq(s, 1, i - 1)) + ToInt(SubSeq(s, i + 1, Len(s)))

Max(a, b) == IF a >= b THEN a ELSE b

\* hours_outside_business without the branch for intervals that do not overlap
hours_outside_business_NoBranch(business_start, business_end, time_start, time_end) ==
  Max(0, business_start - time_start) + Max(0, time_end - business_end)

hours_outside_business(business_start, business_end, time_start, time_end) ==
  IF time_end <= business_start \/ time_start >= business_end
  THEN time_end - time_start
  ELSE Max(0, business_start - time_start) + Max(0, time_end - business_end)

----------------------------------------------------------------------------
(* Records: a JSON object is a function from its keys to its values.       *)

\* data[key] = val
Put(rec, key, val) ==
  [k \in DOMAIN rec \cup {key} |-> IF k = key THEN val ELSE rec[k]]

\* del data[key]
Del(rec, key) == [k \in DOMAIN rec \ {key} |-> rec[k]]

\* the nested function recompute_if_missing of expand_data
recompute_if_missing(rec, key, replacement) ==
  IF key \notin DOMAIN rec THEN Put(rec, key, replacement) ELSE rec

----------------------------------------------------------------------------
(* expand_data.                                                            *)

\* the party files under args.parties: <party>.json
Parties ==
  [acme   |-> [name |-> "Acme s.r.o.", address |-> "Bratislava"],
   globex |-> [name |-> "Globex a.s.", address |-> "Praha"]]

\* f"{prefix}_{k}"
PartyKey(prefix, k) == prefix \o "_" \o k

\* the asserts an item runs into
ItemAsserts(sheet, item) ==
  IF item.workday
  THEN /\ time_to_hours(item.from) < time_to_hours(item.to)
       /\ time_to_hours(sheet.business_start) < time_to_hours(sheet.business_end)
  ELSE time_to_hours(item.from) < time_to_hours(item.to)

\* the body of the loop over sheet["items"]: the hours of one item
ItemHours(sheet, item) ==
  IF item.workday
  THEN hours_outside_business(time_to_hours(sheet.business_start),
                              time_to_hours(sheet.business_end),
                              time_to_hours(item.from), time_to_hours(item.to))
  ELSE time_to_hours(item.to) - time_to_hours(item.from)

\* item["hours"] = hours; item["price"] = hours * hourly_price
ExpandItem(sheet, item) ==
  Put(Put(item, "hours", ItemHours(sheet, item)),
      "price", ItemHours(sheet, item) * sheet.hourly_price)

RECURSIVE SumHours(_, _)
SumHours(sheet, items) ==
  IF items = <<>> THEN 0
  ELSE ItemHours(sheet, Head(items)) + SumHours(sheet, Tail(items))

\* the body of the loop over data["oncall"], on the sheet
ExpandSheet(sheet) ==
  Put(Put(Put(sheet, "items",
              [i \in 1..Len(sheet.items) |-> ExpandItem(sheet, sheet.items[i])]),
          "total_hours", SumHours(sheet, sheet.items)),
      "total_price", SumHours(sheet, sheet.items) * sheet.hourly_price)

\* the delivery line appended for a sheet
OncallLine(sheet) ==
  [description |-> sheet.title,
   quantity    |-> SumHours(sheet, sheet.items),
   unit_price  |-> sheet.hourly_price,
   unit        |-> "hour"]

\* ExpandOncall putting the lines of the sheets first
ExpandOncall_Prepend(rec) ==
  IF "oncall" \in DOMAIN rec
  THEN Put(Put(rec, "oncall",
               [i \in 1..Len(rec.oncall) |-> ExpandSheet(rec.oncall[i])]),
           "deliveries",
           [i \in 1..Len(rec.oncall) |-> OncallLine(rec.oncall[i])] \o rec.deliveries)
  ELSE rec

\* the "Compute oncall" block
ExpandOncall(rec) ==
  IF "oncall" \in DOMAIN rec
  THEN Put(Put(rec, "oncall",
               [i \in 1..Len(rec.oncall) |-> ExpandSheet(rec.oncall[i])]),
           "deliveries",
           rec.deliveries \o [i \in 1..Len(rec.oncall) |-> OncallLine(rec.oncall[i])])
  ELSE rec

OncallAsserts(rec) ==
  "oncall" \in DOMAIN rec =>
    \A i \in 1..Len(rec.oncall) :
      \A j \in 1..Len(rec.oncall[i].items) :
        ItemAsserts(rec.oncall[i], rec.oncall[i].items[j])

RECURSIVE SumTotals(_)
SumTotals(deliveries) ==
  IF deliveries = <<>> THEN 0
  ELSE Head(deliveries).total + SumTotals(Tail(deliveries))

\* delivery["total"] = delivery["quantity"] * delivery["unit_price"]
DeliveryTotal(delivery) == delivery.quantity * delivery.unit_price

\* the "Compute totals" block
ComputeTotals(rec) ==
  LET ds == [i \in 1..Len(rec.deliveries) |->
               Put(rec.deliveries[i], "total", DeliveryTotal(rec.deliveries[i]))]
  IN  Put(Put(rec, "deliveries", ds), "total", SumTotals(ds))

\* the loop body of "Add supplier and client values" for one prefix
MergeParty(rec, prefix) ==
  LET party == Parties[rec[prefix]]
      keys  == {PartyKey(prefix, k) : k \in DOMAIN party}
  IN  [key \in DOMAIN rec \cup keys |->
         IF key \in keys
         THEN party[CHOOSE k \in DOMAIN party : PartyKey(prefix, k) = key]
         ELSE rec[key]]

PartiesFound(rec) == rec.supplier \in DOMAIN Parties /\ rec.client \in DOMAIN Parties

expand_data(rec) ==
  LET dated == recompute_if_missing(
                 recompute_if_missing(rec, "delivery_date", rec.date_to),
                 "due_date",
                 pretty_date(AddDays(parse_pretty_date(rec.issue_date), 15)))
  IN  IF ~OncallAsserts(dated) THEN Raised("AssertionError")
      ELSE IF ~PartiesFound(dated) THEN Raised("FileNotFoundError")
      ELSE Returned(MergeParty(MergeParty(ComputeTotals(ExpandOncall(dated)),
                                          "supplier"), "client"))

----------------------------------------------------------------------------
(* copy_and_increment.                                                     *)

\* Stale warning from the fifth day on
Stale_FromFive(now, date_to) == ToOrdinal(now) - ToOrdinal(date_to) >= 5

\* today - date_to > timedelta(5)
Stale(now, date_to) == ToOrdinal(now) - ToOrdinal(date_to) > 5

\* StripDerived keeping the dates of the previous period
StripDerived_Keep(rec) == rec

\* the two del statements
StripDerived(rec) ==
  LET a == IF "delivery_date" \in DOMAIN rec THEN Del(rec, "delivery_date") ELSE rec
  IN  IF "due_date" \in DOMAIN a THEN Del(a, "due_date") ELSE a

\* the part of copy_and_increment after the check of the output file: the
\* warning it prints, and the record it writes or the exception it raises
copy_and_increment(input, now) ==
  LET stripped         == StripDerived(input)
      date_to_previous == parse_pretty_date(stripped.date_to)
      date_from        == NextDay(date_to_previous)
      date_to          == end_of_month(date_from)
      moved            == Put(Put(Put(stripped, "date_from", pretty_date(date_from)),
                                  "date_to", pretty_date(date_to)),
                              "issue_date", pretty_date(now))
      ref              == increment_payment_reference(stripped.payment_reference,
                                                      date_to_previous.year, date_to.year)
  IN  [warned |-> Stale(now, date_to),
       err    |-> ref.err,
       value  |-> IF ref.err = "none"
                  THEN Put(moved, "payment_reference", ref.value)
                  ELSE <<>>]

----------------------------------------------------------------------------
(* Bounds and inputs.                                                      *)

MaxRuns == 2
MaxSheets == 2
LastYear == 2024

\* a year divisible by 4 that is no leap year
CenturyYears == {2100}

InputYears == (2023..LastYear) \cup CenturyYears

InputDays == {1, 15, 28, 29, 30, 31}

InputDates ==
  {Date(y, m, d) : y \in InputYears, m \in 1..12, d \in InputDays}

\* the dates of the calendar among them
ValidDates == {dt \in InputDates : dt.day <= DaysInMonth(dt.year, dt.month)}

\* the last day of the month after the one a period ends in, by the calendar
PeriodEnd(date_to) ==
  LET first == NextDay(date_to)
  IN  Date(first.year, first.month, DaysInMonth(first.year, first.month))

\* how many days after the end of the new period the program is run
RunDelays == {0, 5, 6, 40}

T(h1, h2, m1, m2) == <<DigitChar(h1), DigitChar(h2), ":", DigitChar(m1), DigitChar(m2)>>

Clock == {T(0, 7, 0, 0), T(0, 8, 3, 0), T(0, 9, 0, 0), T(1, 0, 0, 0), T(1, 2, 1, 5),
          T(1, 6, 0, 0), T(1, 7, 0, 0), T(1, 9, 0, 0), T(2, 0, 0, 0), T(2, 2, 4, 5)}

BusinessHours == {<<T(0, 9, 0, 0), T(1, 7, 0, 0)>>, <<T(0, 8, 3, 0), T(1, 2, 1, 5)>>}

Item(w, f, t) == [workday |-> w, from |-> f, to |-> t]

Items == {Item(w, f, t) : w \in BOOLEAN, f \in Clock, t \in Clock}

ValidItems == {it \in Items : time_to_hours(it.from) < time_to_hours(it.to)}

Sheet(title, hours, price, items) ==
  [title |-> title, business_start |-> hours[1], business_end |-> hours[2],
   hourly_price |-> price, items |-> items]

\* sheets of one item, over every item and both business windows
SingleSheets == {Sheet("on-call", b, 10, <<it>>) : b \in BusinessHours, it \in ValidItems}

\* the sheet of the end-to-end example, a sheet of no item, and a sheet with
\* an item that ends before it starts
ExampleSheet ==
  Sheet("support", <<T(0, 9, 0, 0), T(1, 7, 0, 0)>>, 25,
        <<Item(TRUE, T(0, 7, 0, 0), T(1, 9, 0, 0)), Item(FALSE, T(0, 7, 0, 0), T(1, 9, 0, 0))>>)

EmptySheet == Sheet("standby", <<T(0, 9, 0, 0), T(1, 7, 0, 0)>>, 10, <<>>)

BadSheet ==
  Sheet("bad", <<T(0, 9, 0, 0), T(1, 7, 0, 0)>>, 10, <<Item(FALSE, T(1, 9, 0, 0), T(0, 7, 0, 0))>>)

FewSheets == {ExampleSheet, EmptySheet, Sheet("night", <<T(0, 9, 0, 0), T(1, 7, 0, 0)>>, 7,
                                             <<Item(TRUE, T(2, 0, 0, 0), T(2, 2, 4, 5))>>)}

RECURSIVE SeqsUpTo(_, _)
SeqsUpTo(S, n) ==
  IF n = 0 THEN {<<>>}
  ELSE SeqsUpTo(S, n - 1)
         \cup {Append(q, x) : q \in {r \in SeqsUpTo(S, n - 1) : Len(r) = n - 1}, x \in S}

OncallInputs ==
  {<<sh>> : sh \in SingleSheets \cup {BadSheet}} \cup (SeqsUpTo(FewSheets, MaxSheets) \ {<<>>})

Delivery(desc, q, p, u) == [description |-> desc, quantity |-> q * Scale, unit_price |-> p, unit |-> u]

DeliveryInputs ==
  {<<>>,
   <<Delivery("development", 2, 10, "day")>>,
   <<Delivery("development", 2, 10, "day"), Delivery("consulting", 1, 5, "day")>>}

RefAB2023007 == <<"A", "B", "2", "0", "2", "3", "0", "0", "7">>
RefINV099 == <<"I", "N", "V", "0", "9", "9">>
RefINV == <<"I", "N", "V">>

RefPrefixes == {<<>>, <<"A", "B">>, <<"I", "N", "V">>, <<"1", "2">>, <<"a", NL>>, <<NL>>}
RefYears == {<<>>, <<"2", "0", "2", "3">>, <<"2", "0", "2", "4">>, YearLit}
RefNumbers == {<<>>, <<"7">>, <<"0", "0", "7">>, <<"0", "9", "9">>, <<"9", "9", "9">>, <<"*">>, <<"b">>}
RefSuffixes == {<<>>, <<NL>>}

RefInputs ==
  {p \o y \o n \o e : p \in RefPrefixes, y \in RefYears, n \in RefNumbers, e \in RefSuffixes}

Invoice(pr, date_to, issue, deliveries) ==
  [supplier |-> "acme", client |-> "globex", payment_reference |-> pr,
   date_from |-> pretty_date(Date(date_to.year, date_to.month, 1)),
   date_to |-> pretty_date(date_to), issue_date |-> pretty_date(issue),
   deliveries |-> deliveries]

\* the dates an author writes into a record by hand
ExplicitDelivery == pretty_date(Date(2024, 2, 15))
ExplicitDue == pretty_date(Date(2024, 3, 31))

WithDates(rec) == Put(Put(rec, "delivery_date", ExplicitDelivery), "due_date", ExplicitDue)

NoRecord == <<>>

----------------------------------------------------------------------------
(* The runs of main().                                                     *)

\* a run starts with a record on disk: under --increment-from it is the
\* previous period's record, else it is the invoice file itself
Start(rec, now, increment, out_exists) ==
  /\ pc = IF increment THEN "copy" ELSE "expand"
  /\ mode = IF increment THEN "increment" ELSE "invoice"
  /\ exists = (increment /\ out_exists)
  /\ today = now
  /\ src = IF increment THEN rec ELSE NoRecord
  /\ file = IF increment THEN NoRecord ELSE rec
  /\ data = NoRecord
  /\ warned = FALSE
  /\ error = "none"
  /\ runs = 1
  /\ steps = 0

\* the periods: many dates, one delivery list, a reference that increments
\* and one that does not
Init ==
  \E dt \in ValidDates, delay \in RunDelays, pr \in {RefAB2023007, RefINV},
     dated \in BOOLEAN, increment \in BOOLEAN, out_exists \in BOOLEAN :
    LET rec == Invoice(pr, dt, dt, <<Delivery("development", 2, 10, "day")>>)
    IN  Start(IF dated THEN WithDates(rec) ELSE rec, AddDays(PeriodEnd(dt), delay), increment, out_exists)

\* the expansion: one period, every on-call input and delivery list
InitExpand ==
  \E oncall \in OncallInputs \cup {<<>>}, deliveries \in DeliveryInputs, increment \in BOOLEAN :
    LET rec == Invoice(RefINV099, Date(2023, 11, 30), Date(2023, 12, 1), deliveries)
    IN  Start(IF oncall = <<>> THEN rec ELSE Put(rec, "oncall", oncall),
              Date(2024, 1, 2), increment, FALSE)

\* the references: every reference input, with and without a change of year
InitRef ==
  \E pr \in RefInputs, dt \in {Date(2023, 11, 30), Date(2023, 12, 31)}, increment \in BOOLEAN :
    Start(Invoice(pr, dt, dt, <<Delivery("development", 2, 10, "day")>>),
          Date(2024, 1, 2), increment, FALSE)

\* copy_and_increment(args.increment_from, args.invoice_file) in main
CopyAndIncrement ==
  /\ pc = "copy"
  /\ IF exists
     THEN /\ pc' = "exit"
          /\ error' = "OutputExists"
          /\ UNCHANGED <<file, warned, steps>>
     ELSE LET r == copy_and_increment(src, today)
          IN  /\ warned' = r.warned
              /\ error' = r.err
              /\ IF r.err = "none"
                 THEN pc' = "edit" /\ file' = r.value /\ steps' = steps + 1
                 ELSE pc' = "failed" /\ file' = NoRecord /\ steps' = steps
  /\ UNCHANGED <<mode, exists, today, src, data, runs>>

\* os.system("$EDITOR ..."): the author leaves the skeleton as it is
EditNothing ==
  /\ pc = "edit"
  /\ pc' = "expand"
  /\ UNCHANGED <<mode, exists, today, src, file, data, warned, error, runs, steps>>

\* os.system("$EDITOR ..."): the author writes the two dates by hand
EditDates ==
  /\ pc = "edit"
  /\ pc' = "expand"
  /\ file' = WithDates(file)
  /\ UNCHANGED <<mode, exists, today, src, data, warned, error, runs, steps>>

\* data = expand_data(args, data), and generate_invoice dumping it
ExpandData ==
  /\ pc = "expand"
  /\ LET r == expand_data(file)
     IN  /\ error' = r.err
         /\ IF r.err = "none"
            THEN pc' = "done" /\ data' = r.value
            ELSE pc' = "failed" /\ data' = NoRecord
  /\ UNCHANGED <<mode, exists, today, src, file, warned, runs, steps>>

\* the next run of the program, a month later
NextRun(from, increment) ==
  /\ pc = "done"
  /\ runs < MaxRuns
  /\ runs' = runs + 1
  /\ today' = AddDays(today, 30)
  /\ pc' = IF increment THEN "copy" ELSE "expand"
  /\ mode' = IF increment THEN "increment" ELSE "again"
  /\ src' = IF increment THEN from ELSE src
  /\ file' = IF increment THEN NoRecord ELSE from
  /\ data' = NoRecord
  /\ warned' = FALSE
  /\ error' = "none"
  /\ UNCHANGED <<exists, steps>>

\* --increment-from the invoice file of the last run
IncrementFromInvoice == NextRun(file, TRUE)

\* --increment-from the expanded record the last run dumped
IncrementFromOutput == NextRun(data, TRUE)

\* --invoice-file the expanded record the last run dumped
ExpandOutput == NextRun(data, FALSE)

Next ==
  \/ CopyAndIncrement
  \/ EditNothing
  \/ EditDates
  \/ ExpandData
  \/ IncrementFromInvoice
  \/ IncrementFromOutput
  \/ ExpandOutput

Spec == Init /\ [][Next]_vars

SpecExpand == InitExpand /\ [][Next]_vars

SpecRef == InitRef /\ [][Next]_vars

----------------------------------------------------------------------------
(* Properties.                                                             *)

\* copy_and_increment has returned: file is the skeleton it wrote
Copied == mode = "increment" /\ pc = "edit"

\* copy_and_increment has raised: nothing was written
CopyRaised == mode = "increment" /\ pc = "failed" /\ DOMAIN file = {}

PrevYear == parse_pretty_date(src.date_to).year

ThisYear == parse_pretty_date(file.date_to).year

\* a two-character prefix of letters, the previous year, a counter of one
\* digit or more
YearShaped(pr, year) ==
  /\ Len(pr) >= 7
  /\ pr[1] \notin Digits \cup {NL} /\ pr[2] \notin Digits \cup {NL}
  /\ SubSeq(pr, 3, 6) = IntToStr(year)
  /\ AllDigits(SubSeq(pr, 7, Len(pr)))

\* the counter c advanced to a text of the same width, or one digit wider
\* when every digit of c is a 9
Advanced(c, next) ==
  /\ AllDigits(next)
  /\ ToInt(next) = ToInt(c) + 1
  /\ Len(next) >= Len(c)
  /\ Len(next) > Len(c) => (Len(next) = Len(c) + 1 /\ \A i \in 1..Len(c) : c[i] = "9")

\* C1: a reference made of a two-character prefix, the previous year and a
\* digit counter comes back as the prefix, the new year and the counter plus
\* one at its width: "AB2023007" for 2023, 2024 gives "AB2024008".
C1_YearReplaced ==
  (Copied \/ CopyRaised) /\ YearShaped(src.payment_reference, PrevYear) =>
    /\ Copied
    /\ LET pr == src.payment_reference
           c  == SubSeq(pr, 7, Len(pr))
       IN  \E next \in {SubSeq(file.payment_reference, 7, Len(file.payment_reference))} :
             /\ file.payment_reference = SubSeq(pr, 1, 2) \o IntToStr(ThisYear) \o next
             /\ Advanced(c, next)

\* the text a reference is read as: a newline that ends it is not part of it
Body(pr) ==
  IF Len(pr) > 0 /\ pr[Len(pr)] = NL THEN SubSeq(pr, 1, Len(pr) - 1) ELSE pr

\* C6: an accepted reference keeps the text before its trailing digit
\* counter and has the counter replaced by counter + 1, written with the
\* digits of the original counter at least, one more only on overflow.
C6_CounterAdvanced ==
  Copied =>
    LET old == Body(src.payment_reference)
        new == file.payment_reference
    IN  \E k \in 0..(Len(old) - 1) :
          /\ AllDigits(SubSeq(old, k + 1, Len(old)))
          /\ k > 0 => old[k] \notin Digits
          /\ Len(new) >= k
          /\ SubSeq(new, 1, k) = SubSeq(old, 1, k)
          /\ Advanced(SubSeq(old, k + 1, Len(old)), SubSeq(new, k + 1, Len(new)))

C6_Witness ==
  /\ Copied
  /\ src.payment_reference = <<"I", "N", "V", "0", "9", "9">>
  /\ file.payment_reference = <<"I", "N", "V", "1", "0", "0">>

\* C10: the unparsable-reference error is raised exactly when no format
\* matches, and a reference that some format matches always gets a next
\* reference, whether or not it ends in digits.
C10_FailsOnlyUnmatched ==
  (Copied \/ CopyRaised) =>
    /\ error = "Exception" <=> FirstMatch(src.payment_reference) = 0
    /\ FirstMatch(src.payment_reference) # 0 => Copied

Totals(deliveries) == [i \in 1..Len(deliveries) |-> deliveries[i].total]

\* C2: expanding a record that is already expanded gives the grand total
\* and the line totals of the first expansion.
C2_SameTotals ==
  mode = "again" /\ pc = "done" =>
    /\ data.total = file.total
    /\ Totals(data.deliveries) = Totals(file.deliveries)

\* the sum of the totals of the first n lines
RECURSIVE TotalOfFirst(_, _)
TotalOfFirst(deliveries, n) ==
  IF n = 0 THEN 0 ELSE TotalOfFirst(deliveries, n - 1) + deliveries[n].total

SheetsOf(rec) == IF "oncall" \in DOMAIN rec THEN rec.oncall ELSE <<>>

\* C3: after expand_data every line has total = quantity * unit_price, the
\* record's total is the sum of the line totals, the lines the record came
\* with stay first and in place, and they are followed by one line for each
\* sheet, in sheet order, with the sheet's total_hours and hourly_price.
C3_TotalsAndLines ==
  pc = "done" =>
    LET before == file.deliveries
        after  == data.deliveries
        sheets == SheetsOf(data)
    IN  /\ Len(after) = Len(before) + Len(sheets)
        /\ \A i \in 1..Len(after) : after[i].total = after[i].quantity * after[i].unit_price
        /\ data.total = TotalOfFirst(after, Len(after))
        /\ \A i \in 1..Len(before) :
             /\ after[i].description = before[i].description
             /\ after[i].quantity = before[i].quantity
             /\ after[i].unit_price = before[i].unit_price
        /\ \A j \in 1..Len(sheets) :
             /\ after[Len(before) + j].description = sheets[j].title
             /\ after[Len(before) + j].quantity = sheets[j].total_hours
             /\ after[Len(before) + j].unit_price = sheets[j].hourly_price

C3_Witness ==
  /\ pc = "done"
  /\ Len(file.deliveries) = 2
  /\ Len(SheetsOf(data)) = 2
  /\ data.oncall[1].title # data.oncall[2].title
  /\ data.deliveries[3].quantity > 0
  /\ data.total > 50 * Scale

\* the length of the part of [time_start, time_end) outside
\* [business_start, business_end), counted in the unit of the clock
Outside(business_start, business_end, time_start, time_end) ==
  Cardinality({t \in time_start..(time_end - 1) : t < business_start \/ t >= business_end})

\* C4: a workday item is billed the length of the part of its interval that
\* lies outside the business window, any other item its full length; 07:00
\* to 19:00 against 09:00 to 17:00 is 4 hours on a workday and 12 otherwise.
C4_HoursOutside ==
  pc = "done" =>
    \A i \in 1..Len(SheetsOf(data)) :
      LET sheet == data.oncall[i]
      IN  \A j \in 1..Len(sheet.items) :
            LET item == sheet.items[j]
                bs   == time_to_hours(sheet.business_start)
                be   == time_to_hours(sheet.business_end)
                ts   == time_to_hours(item.from)
                te   == time_to_hours(item.to)
            IN  /\ item.workday => item.hours = Outside(bs, be, ts, te)
                /\ ~item.workday => item.hours = te - ts
                /\ (bs = 9 * Scale /\ be = 17 * Scale /\ ts = 7 * Scale /\ te = 19 * Scale) =>
                     item.hours = IF item.workday THEN 4 * Scale ELSE 12 * Scale

C4_Witness ==
  /\ pc = "done"
  /\ Len(SheetsOf(data)) > 0
  /\ data.oncall[1].title = "support"
  /\ data.oncall[1].items[1].workday /\ data.oncall[1].items[1].hours = 4 * Scale
  /\ ~data.oncall[1].items[2].workday /\ data.oncall[1].items[2].hours = 12 * Scale

PrevDateTo == parse_pretty_date(src.date_to)

NewDateFrom == parse_pretty_date(file.date_from)

NewDateTo == parse_pretty_date(file.date_to)

\* the length of a month by the calendar's table
LastDayOf(y, m) ==
  CASE m = 2 -> IF y % 4 = 0 /\ (y % 100 # 0 \/ y % 400 = 0) THEN 29 ELSE 28
    [] m \in {4, 6, 9, 11} -> 30
    [] OTHER -> 31

\* C5: the new date_from is the day after the previous date_to, and the new
\* date_to is the last day of the month of the new date_from, whatever day
\* of the month that is: 29 or 28 in February, 30 or 31 otherwise.
C5_EndOfMonth ==
  Copied =>
    /\ ToOrdinal(NewDateFrom) = ToOrdinal(PrevDateTo) + 1
    /\ NewDateTo.year = NewDateFrom.year
    /\ NewDateTo.month = NewDateFrom.month
    /\ NewDateTo.day = LastDayOf(NewDateFrom.year, NewDateFrom.month)
    /\ NextDay(NewDateTo).month # NewDateTo.month

C5_Witness ==
  /\ Copied
  /\ NewDateFrom = Date(2024, 2, 16)
  /\ NewDateTo = Date(2024, 2, 29)

\* C7: the skeleton holds neither delivery_date nor due_date, whatever the
\* previous record held; expand_data then sets delivery_date to date_to and
\* due_date to issue_date plus 15 days where the record has none, and keeps
\* the ones the record has.
C7_DerivedDates ==
  /\ Copied => "delivery_date" \notin DOMAIN file /\ "due_date" \notin DOMAIN file
  /\ pc = "done" =>
       /\ data.delivery_date =
            IF "delivery_date" \in DOMAIN file THEN file.delivery_date ELSE file.date_to
       /\ "due_date" \in DOMAIN file => data.due_date = file.due_date
       /\ "due_date" \notin DOMAIN file =>
            ToOrdinal(parse_pretty_date(data.due_date))
              = ToOrdinal(parse_pretty_date(file.issue_date)) + 15

C7_Witness ==
  /\ pc = "done" /\ mode = "increment"
  /\ "delivery_date" \in DOMAIN src /\ "due_date" \in DOMAIN src
  /\ "delivery_date" \notin DOMAIN file /\ "due_date" \notin DOMAIN file
  /\ data.delivery_date = data.date_to
  /\ data.delivery_date # src.delivery_date
  /\ data.issue_date = pretty_date(today)
  /\ data.due_date = pretty_date(AddDays(today, 15))
  /\ data.due_date # src.due_date

C9_Periods ==
  Copied =>
    /\ ToOrdinal(NewDateFrom) <= ToOrdinal(NewDateTo)
    /\ ToOrdinal(NewDateFrom) = ToOrdinal(PrevDateTo) + 1
    /\ NewDateTo.day = LastDayOf(NewDateTo.year, NewDateTo.month)
    /\ steps >= 2 =>
         /\ NewDateFrom.day = 1
         /\ NewDateFrom.month = NewDateTo.month
         /\ NewDateFrom.year = NewDateTo.year

C9_Witness ==
  /\ Copied
  /\ steps >= 2
  /\ NewDateFrom = Date(2024, 1, 1)
  /\ NewDateTo = Date(2024, 1, 31)

====
